---- MODULE Spec2Model ----
(***************************************************************************)
(* Model of src/sentences/rmc.rs: the RMC (Recommended Minimum Navigation  *)
(* Information) sentence decoder parse_rmc / do_parse_rmc.                 *)
(*                                                                         *)
(* A framed sentence is a record [message_id, data]; data is the           *)
(* comma-delimited field-data string.  Strings are TLA+ strings, read one  *)
(* character at a time with Head/Tail/SubSeq exactly as nom's cursor-style *)
(* parsers read a &str.  A parser result (nom's IResult) is                *)
(*   [ok |-> TRUE,  rest |-> remaining input, val |-> value]   or          *)
(*   [ok |-> FALSE, kind |-> "Error" | "Failure", code, rest |-> input].   *)
(* Decimal numerals decode to exact decimals [neg, num, scale] standing    *)
(* for (-1)^neg * num / 10^scale, normalised, so that two numerals decode  *)
(* to equal values exactly when they denote the same number.               *)
(***************************************************************************)
EXTENDS Integers, Sequences, FiniteSets, TLC

VARIABLES sentence, result, pc

vars == <<sentence, result, pc>>

-----------------------------------------------------------------------------
(* Bounds of the input space *)

\* Largest number of trailing fields after the date field's delimiter.
MaxTail == 3

-----------------------------------------------------------------------------
(* Option and IResult values *)

None == [some |-> FALSE]

Some(v) == [some |-> TRUE, val |-> v]

Ok(i, v) == [ok |-> TRUE, rest |-> i, val |-> v]

Err(i, code) == [ok |-> FALSE, kind |-> "Error", code |-> code, rest |-> i]

Failure(i, code) == [ok |-> FALSE, kind |-> "Failure", code |-> code, rest |-> i]

-----------------------------------------------------------------------------
(* String helpers *)

Drop(s, n) == SubSeq(s, n + 1, Len(s))

Take(s, n) == SubSeq(s, 1, IF n < Len(s) THEN n ELSE Len(s))

IsDigit(c) == c \in {"0", "1", "2", "3", "4", "5", "6", "7", "8", "9"}

DigitVal(c) == CHOOSE d \in 0..9 : SubSeq("0123456789", d + 1, d + 1) = c

RECURSIVE DigitCount(_)
\* Length of the longest prefix of s made of decimal digits (nom digit0).
DigitCount(s) ==
    IF s # "" /\ IsDigit(Head(s)) THEN 1 + DigitCount(Tail(s)) ELSE 0

RECURSIVE Num(_)
\* The number a string of decimal digits denotes ("" denotes 0).
Num(s) ==
    IF s = "" THEN 0
    ELSE 10 * Num(Take(s, Len(s) - 1)) + DigitVal(SubSeq(s, Len(s), Len(s)))

RECURSIVE Pow10(_)
Pow10(n) == IF n <= 0 THEN 1 ELSE 10 * Pow10(n - 1)

RECURSIVE Normalise(_, _, _)
\* The decimal (-1)^neg * num / 10^scale in normal form.
Normalise(neg, num, scale) ==
    IF scale < 0 THEN Normalise(neg, num * Pow10(-scale), 0)
    ELSE IF scale > 0 /\ num % 10 = 0 THEN Normalise(neg, num \div 10, scale - 1)
    ELSE [neg |-> neg /\ num # 0, num |-> num, scale |-> scale]

-----------------------------------------------------------------------------
(* nom combinators used by do_parse_rmc *)

\* let x = v; K(x): the value v, computed once, bound in what follows.
Then(v, K(_)) == CHOOSE y \in {K(x) : x \in {v}} : TRUE

\* A stricter opt, which passes every error of the inner parser on.
opt_strict(r, i) ==
    Then(r, LAMBDA x : IF x.ok THEN Ok(x.rest, Some(x.val)) ELSE x)

\* combinator::opt applied at input i, r being the inner parser's result at
\* i: a recoverable Error becomes None with nothing consumed, a Failure is
\* passed on.
opt(r, i) ==
    Then(r, LAMBDA x :
        IF x.ok THEN Ok(x.rest, Some(x.val))
        ELSE IF x.kind = "Error" THEN Ok(i, None)
        ELSE x)

\* A char that skips whatever precedes the next occurrence of c.
RECURSIVE char_skip(_, _)
char_skip(c, i) ==
    IF i = "" THEN Err(i, "Char")
    ELSE IF Head(i) = c THEN Ok(Tail(i), c)
    ELSE char_skip(c, Tail(i))

\* A char that takes the end of the input for the character.
char_or_eof(c, i) ==
    IF i = "" \/ Head(i) = c THEN Ok(Drop(i, 1), c) ELSE Err(i, "Char")

\* character::complete::char(c): exactly the character c, consumed.
char(c, i) ==
    IF i # "" /\ Head(i) = c THEN Ok(Tail(i), c) ELSE Err(i, "Char")

\* character::complete::one_of(list): one character of list, consumed.
one_of(list, i) ==
    IF i # "" /\ Head(i) \in list THEN Ok(Tail(i), Head(i)) ELSE Err(i, "OneOf")

\* number::complete::float on the finite decimal grammar
\*   [+-]? (digit+ ('.' digit*)? | '.' digit+) ([eE] [+-]? digit+)?
\* An exponent letter not followed by digits is a Failure (cut).  The
\* non-finite literals (nan, inf) lie outside the input alphabet.
float(i) ==
    LET sgn == IF i # "" /\ Head(i) \in {"+", "-"} THEN 1 ELSE 0
        neg == sgn = 1 /\ Head(i) = "-"
        a == Drop(i, sgn)
    IN  Then(DigitCount(a), LAMBDA n1 :
        LET b == Drop(a, n1)
            dot == b # "" /\ Head(b) = "."
        IN  Then(IF dot THEN DigitCount(Tail(b)) ELSE 0, LAMBDA n2 :
        LET c == Drop(b, IF dot THEN 1 + n2 ELSE 0)
            hasE == c # "" /\ Head(c) \in {"e", "E"}
            esgn == IF hasE /\ Len(c) >= 2 /\ SubSeq(c, 2, 2) \in {"+", "-"} THEN 1 ELSE 0
            eneg == esgn = 1 /\ SubSeq(c, 2, 2) = "-"
            d == Drop(c, 1 + esgn)
        IN  Then(IF hasE THEN DigitCount(d) ELSE 0, LAMBDA n3 :
        LET e == IF eneg THEN 0 - Num(Take(d, n3)) ELSE Num(Take(d, n3))
            digits == Take(a, n1) \o (IF dot THEN Take(Tail(b), n2) ELSE "")
        IN  IF n1 = 0 /\ ~dot THEN Err(a, "Char")
            ELSE IF n1 = 0 /\ n2 = 0 THEN Err(Tail(a), "Digit")
            ELSE IF hasE /\ n3 = 0 THEN Failure(d, "Digit")
            ELSE Ok(IF hasE THEN Drop(d, n3) ELSE c,
                    Normalise(neg, Num(digits), n2 - e)))))

-----------------------------------------------------------------------------
(* Field decoders of sentences::utils, called positionally by do_parse_rmc *)

\* Time of day hhmmss[.ss]: two digits each of hour, minute and second, then
\* an optional fraction; the value is [hour, min, sec, milli].
parse_hms(i) ==
    LET frac == Drop(i, 6)
        nf == IF frac # "" /\ Head(frac) = "." THEN DigitCount(Tail(frac)) ELSE 0
        hour == Num(SubSeq(i, 1, 2))
        min == Num(SubSeq(i, 3, 4))
        sec == Num(SubSeq(i, 5, 6))
        milli == Num(Take(Take(Tail(frac), nf) \o "000", 3))
    IN  IF Len(i) < 6 \/ DigitCount(Take(i, 6)) < 6 THEN Err(i, "MapRes")
        ELSE IF hour >= 24 \/ min >= 60 \/ sec >= 60 THEN Err(i, "MapRes")
        ELSE Ok(IF nf > 0 THEN Drop(frac, 1 + nf) ELSE frac,
                [hour |-> hour, min |-> min, sec |-> sec,
                 milli |-> IF nf > 0 THEN milli ELSE 0])

\* Calendar date ddmmyy; the value is [year, month, day].  A two-digit year
\* from 83 on is of the 1900s (191194 is 19 November 1994), else of the 2000s.
parse_date(i) ==
    LET day == Num(SubSeq(i, 1, 2))
        month == Num(SubSeq(i, 3, 4))
        yy == Num(SubSeq(i, 5, 6))
    IN  IF Len(i) < 6 \/ DigitCount(Take(i, 6)) < 6 THEN Err(i, "MapRes")
        ELSE IF month < 1 \/ month > 12 \/ day < 1 \/ day > 31 THEN Err(i, "MapRes")
        ELSE Ok(Drop(i, 6),
                [year |-> IF yy >= 83 THEN 1900 + yy ELSE 2000 + yy,
                 month |-> month, day |-> day])

\* A coordinate of deg whole degrees and min decimal minutes, negated in
\* the southern / western hemisphere.  The exact decimal is the coordinate
\* in arc-minutes (degrees = value / 60).
Coord(deg, min, negate) ==
    Normalise(negate, deg * 60 * Pow10(min.scale) + min.num, min.scale)

\* The populated coordinate pair ddmm.mm,[NS],dddmm.mm,[EW].
do_parse_lat_lon(i) ==
    IF Len(i) < 2 \/ DigitCount(Take(i, 2)) < 2 THEN Err(i, "MapRes") ELSE
    Then(float(Drop(i, 2)), LAMBDA latMin : IF ~latMin.ok THEN latMin ELSE
    Then(char(",", latMin.rest), LAMBDA c1 : IF ~c1.ok THEN c1 ELSE
    Then(one_of({"N", "S"}, c1.rest), LAMBDA latDir : IF ~latDir.ok THEN latDir ELSE
    Then(char(",", latDir.rest), LAMBDA c2 : IF ~c2.ok THEN c2 ELSE
    IF Len(c2.rest) < 3 \/ DigitCount(Take(c2.rest, 3)) < 3 THEN Err(c2.rest, "MapRes") ELSE
    Then(float(Drop(c2.rest, 3)), LAMBDA lonMin : IF ~lonMin.ok THEN lonMin ELSE
    Then(char(",", lonMin.rest), LAMBDA c3 : IF ~c3.ok THEN c3 ELSE
    Then(one_of({"E", "W"}, c3.rest), LAMBDA lonDir : IF ~lonDir.ok THEN lonDir ELSE
    Ok(lonDir.rest,
       <<Coord(Num(Take(i, 2)), latMin.val, latDir.val = "S"),
         Coord(Num(Take(c2.rest, 3)), lonMin.val, lonDir.val = "W")>>))))))))

\* The coordinate pair: four empty fields are absence (None), anything else
\* must be a populated pair.
parse_lat_lon(i) ==
    IF Take(i, 3) = ",,," THEN Ok(Drop(i, 3), None)
    ELSE Then(do_parse_lat_lon(i), LAMBDA r :
             IF r.ok THEN Ok(r.rest, Some(r.val)) ELSE r)

-----------------------------------------------------------------------------
(* sentences::rmc *)

SentenceType == {"RMC", "GGA"}

\* A status decoder that takes Differential for Autonomous.
status_of_fix_AD(c) ==
    CASE c = "A" -> "Autonomous"
      [] c = "D" -> "Autonomous"
      [] c = "V" -> "Invalid"
      [] OTHER -> "unreachable"

\* The match on the status character; the last arm is unreachable!().
status_of_fix(c) ==
    CASE c = "A" -> "Autonomous"
      [] c = "D" -> "Differential"
      [] c = "V" -> "Invalid"
      [] OTHER -> "unreachable"

\* A record whose course is taken from the speed field.
RmcData_course_from_speed(fix_time, fix_date, status, lat_lon, speed_over_ground, true_course) ==
    [fix_time |-> fix_time,
     fix_date |-> fix_date,
     status_of_fix |-> status,
     lat |-> IF lat_lon.some THEN Some(lat_lon.val[1]) ELSE None,
     lon |-> IF lat_lon.some THEN Some(lat_lon.val[2]) ELSE None,
     speed_over_ground |-> speed_over_ground,
     true_course |-> speed_over_ground]

\* A record whose longitude is never filled in.
RmcData_no_lon(fix_time, fix_date, status, lat_lon, speed_over_ground, true_course) ==
    [fix_time |-> fix_time,
     fix_date |-> fix_date,
     status_of_fix |-> status,
     lat |-> IF lat_lon.some THEN Some(lat_lon.val[1]) ELSE None,
     lon |-> None,
     speed_over_ground |-> speed_over_ground,
     true_course |-> true_course]

\* The RmcData value do_parse_rmc builds from the decoded fields.
RmcData(fix_time, fix_date, status, lat_lon, speed_over_ground, true_course) ==
    [fix_time |-> fix_time,
     fix_date |-> fix_date,
     status_of_fix |-> status,
     lat |-> IF lat_lon.some THEN Some(lat_lon.val[1]) ELSE None,
     lon |-> IF lat_lon.some THEN Some(lat_lon.val[2]) ELSE None,
     speed_over_ground |-> speed_over_ground,
     true_course |-> true_course]

\* The field sequence of one RMC sentence, each step at the rest of the one
\* before it; the first failing step's error is the result (the ? operator).
do_parse_rmc(i) ==
    Then(opt(parse_hms(i), i), LAMBDA fix_time : IF ~fix_time.ok THEN fix_time ELSE
    Then(char(",", fix_time.rest), LAMBDA d1 : IF ~d1.ok THEN d1 ELSE
    Then(one_of({"A", "D", "V"}, d1.rest), LAMBDA status : IF ~status.ok THEN status ELSE
    Then(char(",", status.rest), LAMBDA d2 : IF ~d2.ok THEN d2 ELSE
    Then(parse_lat_lon(d2.rest), LAMBDA lat_lon : IF ~lat_lon.ok THEN lat_lon ELSE
    Then(char(",", lat_lon.rest), LAMBDA d3 : IF ~d3.ok THEN d3 ELSE
    Then(opt(float(d3.rest), d3.rest), LAMBDA speed_over_ground :
        IF ~speed_over_ground.ok THEN speed_over_ground ELSE
    Then(char(",", speed_over_ground.rest), LAMBDA d4 : IF ~d4.ok THEN d4 ELSE
    Then(opt(float(d4.rest), d4.rest), LAMBDA true_course :
        IF ~true_course.ok THEN true_course ELSE
    Then(char(",", true_course.rest), LAMBDA d5 : IF ~d5.ok THEN d5 ELSE
    Then(opt(parse_date(d5.rest), d5.rest), LAMBDA fix_date :
        IF ~fix_date.ok THEN fix_date ELSE
    Then(char(",", fix_date.rest), LAMBDA d6 : IF ~d6.ok THEN d6 ELSE
    Ok(d6.rest,
       RmcData(fix_time.val, fix_date.val, status_of_fix(status.val),
               lat_lon.val, speed_over_ground.val, true_course.val))))))))))))))

WrongSentenceHeader(expected, found) ==
    [tag |-> "Err",
     error |-> [type |-> "WrongSentenceHeader", expected |-> expected, found |-> found]]

\* The nom error of a failed do_parse_rmc, carried in the crate's error.
ParsingError(r) ==
    [tag |-> "Err",
     error |-> [type |-> "ParsingError", kind |-> r.kind, code |-> r.code, input |-> r.rest]]

\* A parse_rmc that decodes the fields whatever the sentence's type is.
parse_rmc_no_guard(s) ==
    Then(do_parse_rmc(s.data), LAMBDA r :
        IF r.ok THEN [tag |-> "Ok", data |-> r.val] ELSE ParsingError(r))

\* A parse_rmc that rejects input left over after the date's delimiter.
parse_rmc_all_consuming(s) ==
    IF s.message_id # "RMC" THEN WrongSentenceHeader("RMC", s.message_id)
    ELSE Then(do_parse_rmc(s.data), LAMBDA r :
             IF ~r.ok THEN ParsingError(r)
             ELSE IF r.rest # "" THEN ParsingError(Err(r.rest, "Eof"))
             ELSE [tag |-> "Ok", data |-> r.val])

\* The type guard, then the fields; of do_parse_rmc's (rest, record) only
\* the record is returned.
parse_rmc(s) ==
    IF s.message_id # "RMC" THEN WrongSentenceHeader("RMC", s.message_id)
    ELSE Then(do_parse_rmc(s.data), LAMBDA r :
             IF r.ok THEN [tag |-> "Ok", data |-> r.val] ELSE ParsingError(r))

-----------------------------------------------------------------------------
(* Field-data strings seen as comma-separated fields *)

RECURSIVE NumFields(_)
\* The number of comma-separated fields of s (one more than its commas).
NumFields(s) ==
    IF s = "" THEN 1
    ELSE IF Head(s) = "," THEN 1 + NumFields(Tail(s))
    ELSE NumFields(Tail(s))

RECURSIVE FirstField(_)
\* The text of s before its first comma.
FirstField(s) ==
    IF s = "" \/ Head(s) = "," THEN "" ELSE Head(s) \o FirstField(Tail(s))

RECURSIVE AfterFields(_, _)
\* What is left of s after its first n fields and the comma ending each.
AfterFields(s, n) ==
    IF n = 0 THEN s
    ELSE IF s = "" THEN ""
    ELSE IF Head(s) = "," THEN AfterFields(Tail(s), n - 1)
    ELSE AfterFields(Tail(s), n)

\* The k-th field of s, "" when s has fewer fields.
Field(s, k) == FirstField(AfterFields(s, k - 1))

RECURSIVE TakeFields(_, _)
\* The first n fields of s, without the comma after the n-th.
TakeFields(s, n) ==
    IF s = "" THEN ""
    ELSE IF Head(s) = "," THEN (IF n <= 1 THEN "" ELSE "," \o TakeFields(Tail(s), n - 1))
    ELSE Head(s) \o TakeFields(Tail(s), n)

-----------------------------------------------------------------------------
(* The sentences the caller supplies *)

TimeMenu == {"", "225446.33", "2254"}

StatusMenu == {"A", "D", "V", "X", ""}

CoordMenu == {",,,", "4916.45,N,12311.12,W", "4916.45,N,,"}

SpeedMenu == {"", "000.5", "0x5"}

CourseMenu == {"", "054.7", "5E"}

DateMenu == {"", "191194", "321194"}

\* The candidate texts of the k-th field after the date field: magnetic
\* variation, its hemisphere, the mode indicator, the navigational status.
TailMenu(k) ==
    CASE k = 1 -> {"", "020.3", "x"}
      [] k = 2 -> {"", "E"}
      [] k = 3 -> {"A", "N"}
      [] OTHER -> {"S"}

RECURSIVE Tails(_)
\* The texts that follow the date field when n more fields do.
Tails(n) ==
    IF n = 0 THEN {""}
    ELSE {t \o "," \o f : t \in Tails(n - 1), f \in TailMenu(n)}

\* The nine mandatory fields, joined by the delimiter.
Bases ==
    {t \o "," \o s \o "," \o c \o "," \o sp \o "," \o co \o "," \o d :
        t \in TimeMenu, s \in StatusMenu, c \in CoordMenu,
        sp \in SpeedMenu, co \in CourseMenu, d \in DateMenu}

\* Field-data strings: truncated ones, of fewer than nine fields, and whole
\* ones followed by up to MaxTail more fields.
Datas ==
    {TakeFields(b, n) : b \in Bases, n \in 1..8}
        \cup UNION {{b \o t : b \in Bases, t \in Tails(n)} : n \in 0..MaxTail}

NoResult == [tag |-> "None"]

-----------------------------------------------------------------------------
(* The state machine: one framed sentence, decoded once *)

Init ==
    /\ sentence \in [message_id : SentenceType, data : Datas]
    /\ result = NoResult
    /\ pc = "call"

\* The caller's call of parse_rmc on the framed sentence.
ParseRmc ==
    /\ pc = "call"
    /\ result' = parse_rmc(sentence)
    /\ pc' = "done"
    /\ UNCHANGED sentence

Next == ParseRmc

Spec == Init /\ [][Next]_vars

-----------------------------------------------------------------------------
(* Vocabulary of the properties *)

Done == pc = "done"

IsRmc == sentence.message_id = "RMC"

\* The k-th field of the sentence's field-data string.
F(k) == Field(sentence.data, k)

\* Fields 3 to 6 as the coordinate decoder sees them.
CoordText == F(3) \o "," \o F(4) \o "," \o F(5) \o "," \o F(6)

CoordEmpty == F(3) = "" /\ F(4) = "" /\ F(5) = "" /\ F(6) = ""

CoordPopulated == F(3) # "" /\ F(4) # "" /\ F(5) # "" /\ F(6) # ""

\* A decoder, run on the text of one field alone, takes all of it.
Whole(r) == r.ok /\ r.rest = ""

\* The value a field decoded through opt must give: absent for the empty
\* field, else what the decoder makes of the field's text.
Decoded(r, f) == IF f = "" THEN None ELSE Some(r.val)

StatusTable ==
    [c \in {"A", "D", "V"} |->
        IF c = "A" THEN "Autonomous" ELSE IF c = "D" THEN "Differential" ELSE "Invalid"]

\* Each of the nine mandatory fields is empty (where it may be) or a text
\* its decoder takes whole.
MandatoryWellFormed ==
    /\ F(1) = "" \/ Whole(parse_hms(F(1)))
    /\ F(2) \in DOMAIN StatusTable
    /\ CoordEmpty \/ Whole(parse_lat_lon(CoordText))
    /\ F(7) = "" \/ Whole(float(F(7)))
    /\ F(8) = "" \/ Whole(float(F(8)))
    /\ F(9) = "" \/ Whole(parse_date(F(9)))

\* Some mandatory field is not empty and its decoder rejects its text.
SomeFieldRejected ==
    \/ F(1) # "" /\ ~Whole(parse_hms(F(1)))
    \/ F(2) # "" /\ F(2) \notin DOMAIN StatusTable
    \/ ~CoordEmpty /\ ~Whole(parse_lat_lon(CoordText))
    \/ F(7) # "" /\ ~Whole(float(F(7)))
    \/ F(8) # "" /\ ~Whole(float(F(8)))
    \/ F(9) # "" /\ ~Whole(parse_date(F(9)))

\* What may follow the delimiter that ends the date field.
Suffixes == UNION {{Drop(t, 1) : t \in Tails(n)} : n \in 1..MaxTail}

ScenarioA == "225446.33,A,4916.45,N,12311.12,W,000.5,054.7,191194,020.3,E,A"

ScenarioB == ",V,,,,,,,,,,N"

-----------------------------------------------------------------------------
(* Properties *)

\* C1: a sentence whose type tag is not RMC gives the WrongSentenceHeader
\* error with expected = RMC and found = the sentence's tag, and nothing
\* else: the error carries nothing of the field-data string.
C1_WrongSentenceType ==
    Done /\ ~IsRmc =>
        /\ result.tag = "Err"
        /\ result.error =
             [type |-> "WrongSentenceHeader", expected |-> "RMC",
              found |-> sentence.message_id]

\* A GGA sentence with malformed field data has been refused for its tag.
C1_Witness ==
    /\ Done
    /\ sentence = [message_id |-> "GGA", data |-> "2254,X,4916.45,N,,,0x5,5E,321194"]
    /\ result.error.found = "GGA"

\* C2: in a returned record every field comes from its fixed position:
\* fix_time from field 1, status_of_fix from field 2, lat and lon from one
\* coordinate-pair decode of fields 3 to 6, speed_over_ground from field 7,
\* true_course from field 8, fix_date from field 9, each field's text taken
\* whole and the delimiter after the date field present.
C2_FieldsByPosition ==
    Done /\ IsRmc /\ result.tag = "Ok" =>
        LET pair == parse_lat_lon(CoordText)
        IN  /\ MandatoryWellFormed
            /\ NumFields(sentence.data) >= 10
            /\ result.data.fix_time = Decoded(parse_hms(F(1)), F(1))
            /\ result.data.status_of_fix = StatusTable[F(2)]
            /\ result.data.lat = (IF pair.val.some THEN Some(pair.val.val[1]) ELSE None)
            /\ result.data.lon = (IF pair.val.some THEN Some(pair.val.val[2]) ELSE None)
            /\ result.data.speed_over_ground = Decoded(float(F(7)), F(7))
            /\ result.data.true_course = Decoded(float(F(8)), F(8))
            /\ result.data.fix_date = Decoded(parse_date(F(9)), F(9))

\* Scenario A has been decoded: 22:54:46.330, Autonomous, 49 deg 16.45 min
\* north, 123 deg 11.12 min west, 0.5 knots, 54.7 degrees, 19 November 1994.
C2_Witness ==
    /\ Done
    /\ sentence = [message_id |-> "RMC", data |-> ScenarioA]
    /\ result.tag = "Ok"
    /\ result.data =
         [fix_time |-> Some([hour |-> 22, min |-> 54, sec |-> 46, milli |-> 330]),
          fix_date |-> Some([year |-> 1994, month |-> 11, day |-> 19]),
          status_of_fix |-> "Autonomous",
          lat |-> Some([neg |-> FALSE, num |-> (49 * 60 * 100) + 1645, scale |-> 2]),
          lon |-> Some([neg |-> TRUE, num |-> (123 * 60 * 100) + 1112, scale |-> 2]),
          speed_over_ground |-> Some([neg |-> FALSE, num |-> 5, scale |-> 1]),
          true_course |-> Some([neg |-> FALSE, num |-> 547, scale |-> 1])]

\* C3: a returned record's status is Autonomous for 'A', Differential for
\* 'D', Invalid for 'V'; any other status text, the empty one included,
\* gives an error value, and the unreachable arm is never taken.
C3_StatusDecoding ==
    Done /\ IsRmc =>
        /\ F(2) \notin {"A", "D", "V"} => result.tag = "Err"
        /\ result.tag = "Ok" =>
             /\ F(2) = "A" => result.data.status_of_fix = "Autonomous"
             /\ F(2) = "D" => result.data.status_of_fix = "Differential"
             /\ F(2) = "V" => result.data.status_of_fix = "Invalid"
             /\ result.data.status_of_fix # "unreachable"

\* A sentence with status 'D' and every other field well-formed has been
\* decoded to Differential.
C3_Witness ==
    /\ Done
    /\ sentence =
         [message_id |-> "RMC",
          data |-> "225446.33,D,4916.45,N,12311.12,W,000.5,054.7,191194,020.3,E,A"]
    /\ result.tag = "Ok"
    /\ result.data.status_of_fix = "Differential"

\* C4: an empty field is absence.  A sentence whose mandatory fields are
\* each empty or well-formed, with a valid status and the delimiter after
\* the date field, decodes; in the record an empty time, coordinate pair,
\* speed, course or date field is absent; Scenario B decodes to the record
\* with status Invalid and everything else absent.
C4_EmptyIsAbsent ==
    Done /\ IsRmc =>
        /\ MandatoryWellFormed /\ NumFields(sentence.data) >= 10 => result.tag = "Ok"
        /\ result.tag = "Ok" =>
             /\ F(1) = "" => result.data.fix_time = None
             /\ CoordEmpty => result.data.lat = None /\ result.data.lon = None
             /\ F(7) = "" => result.data.speed_over_ground = None
             /\ F(8) = "" => result.data.true_course = None
             /\ F(9) = "" => result.data.fix_date = None
        /\ sentence.data = ScenarioB =>
             /\ result.tag = "Ok"
             /\ result.data =
                  [fix_time |-> None, fix_date |-> None, status_of_fix |-> "Invalid",
                   lat |-> None, lon |-> None,
                   speed_over_ground |-> None, true_course |-> None]

\* Scenario B has been decoded.
C4_Witness ==
    /\ Done
    /\ sentence = [message_id |-> "RMC", data |-> ScenarioB]
    /\ result.tag = "Ok"
    /\ result.data.fix_time = None

\* C5: decoding is all-or-nothing: when some mandatory field is not empty
\* and its decoder rejects it, the result is an error, never a record.
C5_AllOrNothing ==
    Done /\ IsRmc /\ SomeFieldRejected => result.tag = "Err"

\* A sentence whose only flaw is a malformed speed field, decoded through
\* opt, has been refused.
C5_Witness ==
    /\ Done
    /\ sentence =
         [message_id |-> "RMC",
          data |-> "225446.33,A,4916.45,N,12311.12,W,0x5,054.7,191194,020.3,E,A"]
    /\ ~Whole(float(F(7)))
    /\ result.tag = "Err"

\* C6: in a returned record lat and lon are both present or both absent:
\* both absent when fields 3 to 6 are all empty, both present when they
\* are all populated.
C6_LatLonTogether ==
    Done /\ IsRmc /\ result.tag = "Ok" =>
        /\ result.data.lat.some <=> result.data.lon.some
        /\ CoordEmpty => ~result.data.lat.some /\ ~result.data.lon.some
        /\ CoordPopulated => result.data.lat.some /\ result.data.lon.some

\* A record with a northern latitude and a western longitude, both present,
\* has been decoded from a sentence with every other optional field empty.
C6_Witness ==
    /\ Done
    /\ sentence = [message_id |-> "RMC", data |-> ",D,4916.45,N,12311.12,W,,,,"]
    /\ result.tag = "Ok"
    /\ result.data.lat.some /\ ~result.data.lat.val.neg
    /\ result.data.lon.some /\ result.data.lon.val.neg

\* C7: a field-data string of exactly the nine mandatory fields, each
\* well-formed, decodes to the same result as the same string continued
\* with a delimiter and trailing fields.
C7_TrailingFieldsInsensitive ==
    Done /\ IsRmc /\ NumFields(sentence.data) = 9 /\ MandatoryWellFormed =>
        \A n \in 1..MaxTail : \A t \in Tails(n) :
            parse_rmc([sentence EXCEPT !.data = sentence.data \o t]) = result

\* C8: a truncated sentence, of fewer than nine fields, gives an error.
C8_TruncatedIsFatal ==
    Done /\ IsRmc /\ NumFields(sentence.data) < 9 => result.tag = "Err"

\* A sentence cut after its course field has been refused at the end of
\* its input.
C8_Witness ==
    /\ Done
    /\ sentence =
         [message_id |-> "RMC", data |-> "225446.33,A,4916.45,N,12311.12,W,000.5,054.7"]
    /\ result.tag = "Err"
    /\ result.error.input = ""

\* C10: nothing after the delimiter that ends the date field is decoded:
\* when the decoder has consumed that delimiter, the same text up to and
\* including it gives the same result whatever follows it.
C10_NothingDecodedAfterDate ==
    Done /\ IsRmc /\ do_parse_rmc(sentence.data).ok =>
        LET rest == do_parse_rmc(sentence.data).rest
            consumed == Take(sentence.data, Len(sentence.data) - Len(rest))
        IN  \A t \in Suffixes :
                parse_rmc([sentence EXCEPT !.data = consumed \o t]) = result

\* A sentence whose date field is followed by malformed text has been
\* decoded.
C10_Witness ==
    /\ Done
    /\ sentence =
         [message_id |-> "RMC",
          data |-> "225446.33,A,4916.45,N,12311.12,W,000.5,054.7,191194,x,E,N"]
    /\ result.tag = "Ok"

====
